---- MODULE Spec2Model ----
(***************************************************************************)
(* Model of pre-commit.py: the git pre-commit hook that normalises the     *)
(* frontmatter of staged, modified .mdx documents.                         *)
(*                                                                         *)
(* Text (file contents, paths, the stdout of git) is a sequence of         *)
(* one-character strings, so that the regular expressions of the script    *)
(* are applied character by character, as Python's re module applies them. *)
(***************************************************************************)
EXTENDS Integers, Sequences, FiniteSets, TLC

(***************************************************************************)
(* Character classes of Python's re module, over the alphabet of the model *)
(***************************************************************************)
\* \s
Whitespace == {" ", "\t", "\n"}

\* \w
WordChars ==
  {"a","b","c","d","e","f","g","h","i","j","k","l","m","n","o","p","q","r",
   "s","t","u","v","w","x","y","z","D","T","Z","_",
   "0","1","2","3","4","5","6","7","8","9"}

Digits == <<"0","1","2","3","4","5","6","7","8","9">>

(***************************************************************************)
(* Generic string helpers (str methods used by the script)                 *)
(***************************************************************************)
Min(S) == CHOOSE x \in S : \A y \in S : x <= y

Max(S) == CHOOSE x \in S : \A y \in S : x >= y

\* positions at which pat occurs in s
Occurrences(s, pat) ==
  {i \in 1..(Len(s) - Len(pat) + 1) : SubSeq(s, i, i + Len(pat) - 1) = pat}

\* least element of S that is >= pos, or dflt when there is none
FirstFrom(S, pos, dflt) ==
  LET T == {x \in S : x >= pos} IN IF T = {} THEN dflt ELSE Min(T)

\* str.startswith / str.endswith
StartsWith(s, pre) == Len(s) >= Len(pre) /\ SubSeq(s, 1, Len(pre)) = pre

EndsWith(s, suf) ==
  Len(s) >= Len(suf) /\ SubSeq(s, Len(s) - Len(suf) + 1, Len(s)) = suf

\* first characters of the whitespace-separated words of s (str.split())
WordStarts(s) ==
  {i \in 1..Len(s) :
     /\ s[i] \notin Whitespace
     /\ (i = 1 \/ s[i-1] \in Whitespace)}

\* len(s.split())
SplitLen(s) == Cardinality(WordStarts(s))

\* s.split()[k-1], for 1 <= k <= SplitLen(s)
SplitAt(s, k) ==
  LET W  == WordStarts(s)
      b  == CHOOSE i \in W : Cardinality({j \in W : j < i}) = k - 1
      ws == {i \in 1..Len(s) : s[i] \in Whitespace}
      e  == FirstFrom(ws, b, Len(s) + 1)
  IN  SubSeq(s, b, e - 1)

\* s.splitlines(), from position pos on
RECURSIVE SplitLinesFrom(_, _)
SplitLinesFrom(s, pos) ==
  IF pos > Len(s) THEN << >>
  ELSE LET nl == FirstFrom({i \in 1..Len(s) : s[i] = "\n"}, pos, Len(s) + 1)
       IN  <<SubSeq(s, pos, nl - 1)>> \o SplitLinesFrom(s, nl + 1)

SplitLines(s) == SplitLinesFrom(s, 1)

\* v.strip('"')
StripQuotes(v) ==
  LET keep == {i \in 1..Len(v) : v[i] # "\""}
  IN  IF keep = {} THEN << >> ELSE SubSeq(v, Min(keep), Max(keep))

\* s.replace(old, new): every non-overlapping occurrence, left to right
RECURSIVE ReplaceFrom(_, _, _, _)
ReplaceFrom(s, old, new, pos) ==
  IF old = << >>
  THEN IF pos > Len(s) THEN new
       ELSE new \o <<s[pos]>> \o ReplaceFrom(s, old, new, pos + 1)
  ELSE LET i == FirstFrom(Occurrences(s, old), pos, 0)
       IN  IF i = 0 THEN SubSeq(s, pos, Len(s))
           ELSE SubSeq(s, pos, i - 1) \o new
                  \o ReplaceFrom(s, old, new, i + Len(old))

Replace(s, old, new) == IF old = new THEN s ELSE ReplaceFrom(s, old, new, 1)

\* str(n) for n >= 0
RECURSIVE IntToStr(_)
IntToStr(n) ==
  IF n < 10 THEN <<Digits[n + 1]>>
  ELSE IntToStr(n \div 10) \o <<Digits[(n % 10) + 1]>>

(***************************************************************************)
(* Keys and values written by the hook                                     *)
(***************************************************************************)
K_id == <<"i","d">>

K_draft == <<"d","r","a","f","t">>

K_modDatetime == <<"m","o","d","D","a","t","e","t","i","m","e">>

K_readingTime == <<"r","e","a","d","i","n","g","T","i","m","e">>

V_false == <<"f","a","l","s","e">>

V_first == <<"f","i","r","s","t">>

Delimiter == <<"-","-","-","\n">>

MdxSuffix == <<".","m","d","x">>

(***************************************************************************)
(* re.search(r'---\n(.*?)---\n', content, re.DOTALL)                       *)
(* The leftmost "---\n" that is followed by another one, and the nearest   *)
(* one after it; group(1) is the text between them.                        *)
(***************************************************************************)
FrontmatterMatch(content) ==
  LET O      == Occurrences(content, Delimiter)
      starts == {i \in O : \E j \in O : j >= i + Len(Delimiter)}
  IN  IF starts = {} THEN [found |-> FALSE, from |-> 0, to |-> 0]
      ELSE LET i == Min(starts)
               j == Min({x \in O : x >= i + Len(Delimiter)})
           IN  [found |-> TRUE, from |-> i + Len(Delimiter), to |-> j - 1]

get_frontmatter(content) ==
  LET m == FrontmatterMatch(content)
  IN  IF m.found THEN SubSeq(content, m.from, m.to) ELSE << >>

\* the text after the closing delimiter (the document body)
BodyOf(content) ==
  LET m == FrontmatterMatch(content)
  IN  IF m.found THEN SubSeq(content, m.to + Len(Delimiter) + 1, Len(content))
      ELSE content

(***************************************************************************)
(* re.sub(rf'{key}:\s*.*', f'{key}: {value}', s)                           *)
(* A match starts wherever the text "key:" occurs, \s* then takes all      *)
(* following whitespace, newlines included, and .* the rest of the line it *)
(* has arrived on.                                                         *)
(***************************************************************************)
RECURSIVE ReSubFrom(_, _, _, _)
ReSubFrom(key, value, s, pos) ==
  LET pat == key \o <<":">>
      i   == FirstFrom(Occurrences(s, pat), pos, 0)
  IN  IF i = 0 THEN SubSeq(s, pos, Len(s))
      ELSE LET afterKey == i + Len(pat)
               nonWs    == {x \in 1..Len(s) : s[x] \notin Whitespace}
               afterWs  == FirstFrom(nonWs, afterKey, Len(s) + 1)
               nls      == {x \in 1..Len(s) : s[x] = "\n"}
               lineEnd  == FirstFrom(nls, afterWs, Len(s) + 1)
           IN  SubSeq(s, pos, i - 1) \o key \o <<":", " ">> \o value
                 \o ReSubFrom(key, value, s, lineEnd)

ReSub(key, value, s) == ReSubFrom(key, value, s, 1)

\* the loop of lines 24-25 over updates.items(), a sequence of <<key, value>>
RECURSIVE ApplyUpdates(_, _)
ApplyUpdates(fm, updates) ==
  IF updates = << >> THEN fm
  ELSE ApplyUpdates(ReSub(updates[1][1], updates[1][2], fm), Tail(updates))

\* the content update_frontmatter writes back (the file is left alone when
\* the frontmatter pattern does not match)
update_frontmatter(content, updates) ==
  LET m == FrontmatterMatch(content)
  IN  IF m.found
      THEN LET frontmatter == SubSeq(content, m.from, m.to)
           IN  Replace(content, frontmatter, ApplyUpdates(frontmatter, updates))
      ELSE content

\* whether update_frontmatter opens the file for writing
WritesFile(content) == FrontmatterMatch(content).found

(***************************************************************************)
(* The parse of lines 44-48, re.match on each line: a run of word          *)
(* characters, a colon, any whitespace, and the rest of the line as value  *)
(***************************************************************************)
\* length of the leading run of word characters
KeyLen(line) ==
  FirstFrom({i \in 1..Len(line) : line[i] \notin WordChars}, 1, Len(line) + 1) - 1

LineMatches(line) ==
  /\ KeyLen(line) >= 1
  /\ KeyLen(line) < Len(line)
  /\ line[KeyLen(line) + 1] = ":"

LineKey(line) == SubSeq(line, 1, KeyLen(line))

LineValue(line) ==
  LET nonWs == {x \in 1..Len(line) : line[x] \notin Whitespace}
      b     == FirstFrom(nonWs, KeyLen(line) + 2, Len(line) + 1)
  IN  StripQuotes(SubSeq(line, b, Len(line)))

\* the dict built from a frontmatter string: a later line overrides an
\* earlier one with the same key
ParseFrontmatter(fm) ==
  LET lines == SplitLines(fm)
      M     == {j \in 1..Len(lines) : LineMatches(lines[j])}
      keys  == {LineKey(lines[j]) : j \in M}
  IN  [k \in keys |->
         LineValue(lines[Max({j \in M : LineKey(lines[j]) = k})])]

Frontmatter(content) == ParseFrontmatter(get_frontmatter(content))

(***************************************************************************)
(* calculate_reading_time                                                  *)
(***************************************************************************)
WordsPerMinute == 200

calculate_reading_time_truncated(text) == SplitLen(text) \div WordsPerMinute

\* int(words / 200) + 1.  words / 200 is a float division; for the word
\* counts of a file (below 2^53) the quotient is accurate enough that its
\* truncation is the integer quotient.
calculate_reading_time(text) == (SplitLen(text) \div WordsPerMinute) + 1


(***************************************************************************)
(* Bounds                                                                  *)
(***************************************************************************)
\* number of invocations of the hook in a behaviour
MaxRuns == 2

\* number of distinct values uuid4() can return
MaxIds == 2

(***************************************************************************)
(* The documents and the staged entries the hook is run on                 *)
(***************************************************************************)
K_title == <<"t","i","t","l","e">>

K_uuid == <<"u","u","i","d">>

V_draft == <<"d","r","a","f","t">>

\* one frontmatter line; an empty value leaves nothing after the colon
Line(key, value) ==
  key \o <<":">> \o (IF value = << >> THEN << >> ELSE <<" ">> \o value)
      \o <<"\n">>

RECURSIVE Concat(_)
Concat(ss) == IF ss = << >> THEN << >> ELSE Head(ss) \o Concat(Tail(ss))

\* a document: the frontmatter lines between two delimiters, then the body
Doc(lines, body) == Delimiter \o Concat(lines) \o Delimiter \o body

\* a body of n words
Words(n) == [j \in 1..(2 * n) |-> IF j % 2 = 1 THEN "w" ELSE "\n"]

\* str(uuid4()): one of MaxIds identifiers
UUIDs == {<<"f">> \o IntToStr(n) : n \in 1..MaxIds}

\* datetime.utcnow().isoformat() + 'Z' at clock value t
Timestamp(t) == <<"T">> \o IntToStr(t) \o <<"Z">>

L_id == Line(K_id, <<"a">>)

L_title == Line(K_title, <<"x">>)

L_mod == Line(K_modDatetime, Timestamp(0))

L_rt == Line(K_readingTime, <<"9">>)

\* the documents a.mdx is drawn from
DocsA ==
  { \* no identifier
    Doc(<<L_title, L_rt>>, Words(1)),
    \* no identifier, another key ends in "id"
    Doc(<<Line(K_uuid, <<"b">>), L_title>>, Words(1)),
    \* first release
    Doc(<<L_id, Line(K_draft, V_first), L_mod, L_rt, L_title>>, Words(2)),
    Doc(<<L_id, Line(K_modDatetime, << >>), Line(K_draft, V_first)>>, Words(1)),
    \* published
    Doc(<<L_id, L_title, L_mod, Line(K_draft, <<"\"">> \o V_false \o <<"\"">>),
          L_rt>>, Words(1)),
    Doc(<<L_id, Line(K_draft, V_false), Line(K_readingTime, << >>), L_mod>>,
        Words(1)),
    \* unpublished
    Doc(<<L_id, Line(K_draft, V_draft), Line(K_modDatetime, << >>), L_title>>,
        Words(1)),
    Doc(<<L_id, Line(K_draft, V_draft), Line(K_readingTime, << >>), L_mod>>,
        Words(1)),
    \* no frontmatter at all
    Words(2),
    \* the frontmatter text occurs again in the body
    Doc(<<L_rt>>, L_rt),
    \* long documents: 6 words of frontmatter and delimiters, then the body
    Doc(<<L_id, L_rt>>, Words(WordsPerMinute - 7)),
    Doc(<<L_id, L_rt>>, Words(WordsPerMinute - 6)),
    Doc(<<L_id, L_rt>>, Words(2 * WordsPerMinute - 7)),
    Doc(<<L_id, L_rt>>, Words(2 * WordsPerMinute - 6)),
    \* 7 words of frontmatter and delimiters, one line lost to the rewrite
    Doc(<<L_id, Line(K_readingTime, << >>), L_title>>,
        Words(WordsPerMinute - 7)) }

\* the documents the other files are drawn from
DocsB ==
  { Doc(<<L_title, L_id, Line(K_draft, V_first), L_mod, L_rt>>, Words(1)),
    Doc(<<L_title, L_mod, Line(K_draft, V_false)>>, Words(3)) }

P_a == <<"a",".","m","d","x">>

P_b == <<"b",".","m","d","x">>

P_c == <<"c",".","m","d">>

P_d == <<"d",".","m","d","x">>

P_g == <<"g",".","m","d","x">>

P_ef == <<"e"," ","f",".","m","d","x">>

P_e == <<"e">>

Entry(status, path) == [status |-> status, path |-> path]

\* the staged changes `git diff --cached --name-status` reports
StagedOptions ==
  { <<Entry(<<"A">>, P_d), Entry(<<"M">>, P_a), Entry(<<"M">>, P_c),
      Entry(<<"D">>, P_g), Entry(<<"M">>, P_b)>>,
    <<Entry(<<"M">>, P_a), Entry(<<"M">>, P_ef)>>,
    <<Entry(<<"M">>, P_ef), Entry(<<"M">>, P_b)>> }

\* stdout of `git diff --cached --name-status`: one "status<TAB>path" line
\* per staged entry
RECURSIVE DiffOutput(_)
DiffOutput(entries) ==
  IF entries = << >> THEN << >>
  ELSE Head(entries).status \o <<"\t">> \o Head(entries).path \o <<"\n">>
         \o DiffOutput(Tail(entries))

(***************************************************************************)
(* State                                                                   *)
(***************************************************************************)
VARIABLES
  fs,          \* working tree: path -> content, for the files that exist
  index,       \* git index: path -> staged content
  staged,      \* the staged entries (status, path) of the commit
  pc,          \* position of main()
  stdout,      \* result.stdout of line 38
  files,       \* the list built at line 39
  i,           \* position of the for loop of line 41 in files
  frontmatter, \* the dict built at lines 44-48
  clock,       \* the time datetime.utcnow() returns
  exc,         \* the exception raised inside the try block, or "none"
  raisedAt,    \* the position of main() that raised it
  printed,     \* what the except clauses printed
  result,      \* how main() ended: "running", "returned" or "propagated"
  run,         \* number of the current invocation of the hook
  trace,       \* the file and process operations of the current run
  start,       \* the working tree when the current run started
  text         \* the content read at lines 65-66, per file, in this run

vars == <<fs, index, staged, pc, stdout, files, i, frontmatter, clock, exc,
          raisedAt, printed, result, run, trace, start, text>>

Event(op, path) == [op |-> op, path |-> path]

NoPath == << >>

Init ==
  /\ staged \in StagedOptions
  /\ \E da \in DocsA, db \in DocsB, withE \in BOOLEAN :
       fs = [p \in {P_a, P_b, P_c, P_d, P_ef} \cup (IF withE THEN {P_e} ELSE {})
               |-> IF p = P_a THEN da ELSE db]
  /\ index = [p \in {staged[k].path : k \in 1..Len(staged)} \cap DOMAIN fs
                |-> fs[p]]
  /\ pc = "git_diff"
  /\ stdout = << >>
  /\ files = << >>
  /\ i = 1
  /\ frontmatter = << >>
  /\ clock = 1
  /\ exc = "none"
  /\ raisedAt = "none"
  /\ printed = "nothing"
  /\ result = "running"
  /\ run = 1
  /\ trace = << >>
  /\ start = fs
  /\ text = << >>


(***************************************************************************)
(* Exceptions and external processes                                       *)
(***************************************************************************)
\* subprocess.run(..., check=True) raises CalledProcessError when the
\* process exits non-zero and FileNotFoundError when it cannot be started
ProcessFailures == {"CalledProcessError", "FileNotFoundError"}

ProcessOutcomes == {"ok"} \cup ProcessFailures

\* the classes derived from Exception among the ones raised here
IsException(e) == e \in {"CalledProcessError", "FileNotFoundError"}

HandlerCalledProcessErrorOnly(e) ==
  IF e = "CalledProcessError" THEN "Error" ELSE "nothing"

\* the except clauses of lines 74-77: what the clause that takes e prints,
\* "nothing" when no clause takes it
Handler(e) ==
  IF e = "CalledProcessError" THEN "Error"
  ELSE IF IsException(e) THEN "An unexpected error occurred"
  ELSE "nothing"

Raise(e) ==
  /\ pc' = "except"
  /\ exc' = e
  /\ raisedAt' = pc

StageFileNoop(idx, file, content) == idx

\* `git add file`: the index takes the content of the working tree
StageFile(idx, file, content) ==
  [p \in DOMAIN idx \cup {file} |-> IF p = file THEN content ELSE idx[p]]

(***************************************************************************)
(* main()                                                                  *)
(***************************************************************************)
\* line 38
GitDiff ==
  /\ pc = "git_diff"
  /\ \E outcome \in ProcessOutcomes :
       IF outcome = "ok"
       THEN /\ stdout' = DiffOutput(staged)
            /\ pc' = "select"
            /\ UNCHANGED <<exc, raisedAt>>
       ELSE /\ Raise(outcome)
            /\ UNCHANGED stdout
  /\ trace' = Append(trace, Event("git_diff", NoPath))
  /\ UNCHANGED <<fs, index, staged, files, i, frontmatter, clock, printed,
                 result, run, start, text>>

\* the lines of stdout line 39 keeps
SelectedLines(out) ==
  SelectSeq(SplitLines(out),
            LAMBDA line : StartsWith(line, <<"M">>) /\ EndsWith(line, MdxSuffix))

\* the list comprehension of line 39
SelectedFiles(out) ==
  [k \in 1..Len(SelectedLines(out)) |-> SplitAt(SelectedLines(out)[k], 2)]

\* line 39
SelectFiles ==
  /\ pc = "select"
  /\ files' = SelectedFiles(stdout)
  /\ i' = 1
  /\ pc' = "for"
  /\ UNCHANGED <<fs, index, staged, stdout, frontmatter, clock, exc, raisedAt,
                 printed, result, run, trace, start, text>>

\* line 41: the next file, or the end of the loop
ForFile ==
  /\ pc = "for"
  /\ pc' = IF i <= Len(files) THEN "parse" ELSE "update_index"
  /\ UNCHANGED <<fs, index, staged, stdout, files, i, frontmatter, clock, exc,
                 raisedAt, printed, result, run, trace, start, text>>

\* lines 43-48; open() raises FileNotFoundError for a path that is no file
ParseFile ==
  /\ pc = "parse"
  /\ LET file == files[i] IN
       IF file \in DOMAIN fs
       THEN /\ frontmatter' = Frontmatter(fs[file])
            /\ trace' = Append(trace, Event("read", file))
            /\ pc' = "check_id"
            /\ UNCHANGED <<exc, raisedAt>>
       ELSE /\ Raise("FileNotFoundError")
            /\ UNCHANGED <<frontmatter, trace>>
  /\ UNCHANGED <<fs, index, staged, stdout, files, i, clock, printed, result,
                 run, start, text>>

\* a call of update_frontmatter(file, updates) on the working tree
UpdateFile(file, updates) ==
  /\ fs' = [fs EXCEPT ![file] = update_frontmatter(fs[file], updates)]
  /\ trace' = trace \o <<Event("read", file)>>
                \o (IF WritesFile(fs[file]) THEN <<Event("write", file)>>
                    ELSE << >>)

\* lines 50-53
CheckId ==
  /\ pc = "check_id"
  /\ IF K_id \notin DOMAIN frontmatter
     THEN /\ \E new_id \in UUIDs : UpdateFile(files[i], <<<<K_id, new_id>>>>)
          /\ pc' = "add_id"
     ELSE /\ pc' = "check_draft"
          /\ UNCHANGED <<fs, trace>>
  /\ UNCHANGED <<index, staged, stdout, files, i, frontmatter, clock, exc,
                 raisedAt, printed, result, run, start, text>>

\* subprocess.run(['git', 'add', file], check=True) at position at
GitAdd(at, next, nextI) ==
  /\ pc = at
  /\ \E outcome \in ProcessOutcomes :
       IF outcome = "ok"
       THEN /\ index' = StageFile(index, files[i], fs[files[i]])
            /\ trace' = Append(trace, Event("add", files[i]))
            /\ pc' = next
            /\ i' = nextI
            /\ UNCHANGED <<exc, raisedAt>>
       ELSE /\ Raise(outcome)
            /\ UNCHANGED <<index, trace, i>>
  /\ UNCHANGED <<fs, staged, stdout, files, frontmatter, clock, printed,
                 result, run, start, text>>

\* line 54
AddId == GitAdd("add_id", "check_draft", i)

\* lines 56-58 and 60-62
CheckDraft ==
  /\ pc = "check_draft"
  /\ IF K_draft \in DOMAIN frontmatter /\ frontmatter[K_draft] = V_false
     THEN /\ UpdateFile(files[i], <<<<K_modDatetime, Timestamp(clock)>>>>)
          /\ pc' = "add_draft"
     ELSE IF K_draft \in DOMAIN frontmatter /\ frontmatter[K_draft] = V_first
     THEN /\ UpdateFile(files[i],
                        <<<<K_draft, V_false>>, <<K_modDatetime, << >> >> >>)
          /\ pc' = "add_draft"
     ELSE /\ pc' = "reading_time"
          /\ UNCHANGED <<fs, trace>>
  /\ UNCHANGED <<index, staged, stdout, files, i, frontmatter, clock, exc,
                 raisedAt, printed, result, run, start, text>>

\* lines 59 and 63
AddDraft == GitAdd("add_draft", "reading_time", i)

\* lines 65-68
ReadingTime ==
  /\ pc = "reading_time"
  /\ LET file         == files[i]
         content      == fs[file]
         reading_time == calculate_reading_time(content)
     IN  /\ text' = [p \in DOMAIN text \cup {file} |->
                       IF p = file THEN content ELSE text[p]]
         /\ fs' = [fs EXCEPT ![file] =
                     update_frontmatter(content,
                        <<<<K_readingTime, IntToStr(reading_time)>>>>)]
         /\ trace' = trace \o <<Event("read", file), Event("read", file)>>
                       \o (IF WritesFile(content) THEN <<Event("write", file)>>
                           ELSE << >>)
  /\ pc' = "add_rt"
  /\ UNCHANGED <<index, staged, stdout, files, i, frontmatter, clock, exc,
                 raisedAt, printed, result, run, start>>

\* line 69, the end of the loop body
AddReadingTime == GitAdd("add_rt", "for", i + 1)

\* line 71: `git update-index --again` refreshes the index entries of the
\* staged paths from the working tree
UpdateIndexAgain ==
  /\ pc = "update_index"
  /\ \E outcome \in ProcessOutcomes :
       IF outcome = "ok"
       THEN /\ index' = [p \in DOMAIN index |->
                           IF p \in DOMAIN fs THEN fs[p] ELSE index[p]]
            /\ trace' = Append(trace, Event("update_index", NoPath))
            /\ pc' = "lint"
            /\ UNCHANGED <<exc, raisedAt>>
       ELSE /\ Raise(outcome)
            /\ UNCHANGED <<index, trace>>
  /\ UNCHANGED <<fs, staged, stdout, files, i, frontmatter, clock, printed,
                 result, run, start, text>>

\* line 72; falling off the try block, main() returns
LintStaged ==
  /\ pc = "lint"
  /\ \E outcome \in ProcessOutcomes :
       IF outcome = "ok"
       THEN /\ trace' = Append(trace, Event("lint", NoPath))
            /\ pc' = "done"
            /\ result' = "returned"
            /\ UNCHANGED <<exc, raisedAt>>
       ELSE /\ Raise(outcome)
            /\ UNCHANGED <<trace, result>>
  /\ UNCHANGED <<fs, index, staged, stdout, files, i, frontmatter, clock,
                 printed, text, run, start>>

ExceptAndContinue ==
  /\ pc = "except"
  /\ printed' = Handler(exc)
  /\ IF raisedAt \in {"parse", "add_id", "add_draft", "add_rt"}
     THEN pc' = "for" /\ i' = i + 1 /\ UNCHANGED result
     ELSE pc' = "done" /\ i' = i
            /\ result' = IF Handler(exc) = "nothing" THEN "propagated"
                         ELSE "returned"
  /\ UNCHANGED <<fs, index, staged, stdout, files, frontmatter, clock, exc,
                 raisedAt, run, trace, start, text>>

\* lines 74-77: the except clause that takes the exception prints it and
\* main() returns; an exception no clause takes leaves main()
Except ==
  /\ pc = "except"
  /\ printed' = Handler(exc)
  /\ result' = IF Handler(exc) = "nothing" THEN "propagated" ELSE "returned"
  /\ pc' = "done"
  /\ UNCHANGED <<fs, index, staged, stdout, files, i, frontmatter, clock, exc,
                 raisedAt, run, trace, start, text>>

\* line 80: the next commit attempt runs the hook again, at a later time,
\* on the working tree and index the previous run left
NextRun ==
  /\ pc = "done"
  /\ run < MaxRuns
  /\ run' = run + 1
  /\ clock' = clock + 1
  /\ pc' = "git_diff"
  /\ stdout' = << >>
  /\ files' = << >>
  /\ i' = 1
  /\ frontmatter' = << >>
  /\ exc' = "none"
  /\ raisedAt' = "none"
  /\ printed' = "nothing"
  /\ result' = "running"
  /\ trace' = << >>
  /\ start' = fs
  /\ text' = << >>
  /\ UNCHANGED <<fs, index, staged>>

Next ==
  \/ GitDiff
  \/ SelectFiles
  \/ ForFile
  \/ ParseFile
  \/ CheckId
  \/ AddId
  \/ CheckDraft
  \/ AddDraft
  \/ ReadingTime
  \/ AddReadingTime
  \/ UpdateIndexAgain
  \/ LintStaged
  \/ Except
  \/ NextRun

Spec == Init /\ [][Next]_vars


(***************************************************************************)
(* Vocabulary of the properties                                            *)
(***************************************************************************)
RunEnded == pc = "done"

\* the files whose loop body has run to its end in the current run
Completed == {files[k] : k \in 1..(i - 1)}

\* the value of key k in the frontmatter of content, as a sequence of zero
\* (no such key) or one value
Field(content, k) ==
  LET fm == Frontmatter(content)
  IN  IF k \in DOMAIN fm THEN <<fm[k]>> ELSE << >>

HasFrontmatter(content) == FrontmatterMatch(content).found

\* the index holds the content of the working tree
Restaged(p) == p \in DOMAIN index /\ index[p] = fs[p]

\* the staged entries the hook is meant to process
SelectedPaths ==
  {staged[k].path : k \in {j \in 1..Len(staged) :
       staged[j].status = <<"M">> /\ EndsWith(staged[j].path, MdxSuffix)}}

FileOps == {"read", "write", "add"}

Touched == {trace[k].path : k \in {j \in 1..Len(trace) : trace[j].op \in FileOps}}

OpCount(op) == Cardinality({k \in 1..Len(trace) : trace[k].op = op})

LoopPositions == {"parse", "add_id", "add_draft", "add_rt"}

\* the n with 200(n-1) <= words < 200n
Minutes(words) ==
  CHOOSE n \in 1..(words + 1) :
    WordsPerMinute * (n - 1) <= words /\ words < WordsPerMinute * n

HookKeys == {K_id, K_draft, K_modDatetime, K_readingTime}

(***************************************************************************)
(* Properties                                                              *)
(***************************************************************************)
\* C1: at the end of a run, every file of the loop whose frontmatter had no
\* id key when the run started has an id key holding a generated identifier,
\* and the index holds the rewritten file.
C1_IdGeneratedAndStaged ==
  RunEnded =>
    \A p \in Completed :
      (HasFrontmatter(start[p]) /\ Field(start[p], K_id) = << >>) =>
        /\ \E u \in UUIDs : Field(fs[p], K_id) = <<u>>
        /\ Restaged(p)

\* C2: at the end of a run, every file of the loop that started the run with
\* draft: first has draft: false, no value in modDatetime, and is re-staged.
C2_FirstBecomesFalse ==
  RunEnded =>
    \A p \in Completed :
      Field(start[p], K_draft) = <<V_first>> =>
        /\ Field(fs[p], K_draft) = <<V_false>>
        /\ Field(fs[p], K_modDatetime) \in {<< >>, << << >> >>}
        /\ Restaged(p)

\* C3: at the end of a run, every file of the loop that started the run with
\* draft: false and a modDatetime field has modDatetime equal to the time of
\* the run, and is re-staged.
C3_ModDatetimeSet ==
  RunEnded =>
    \A p \in Completed :
      (Field(start[p], K_draft) = <<V_false>>
         /\ Field(start[p], K_modDatetime) # << >>) =>
        /\ Field(fs[p], K_modDatetime) = <<Timestamp(clock)>>
        /\ Restaged(p)

C5_FailuresCaught ==
  /\ result # "propagated"
  /\ (RunEnded /\ exc # "none") => (printed # "nothing" /\ result = "returned")

C5_Witness ==
  /\ RunEnded
  /\ exc = "FileNotFoundError"
  /\ raisedAt = "lint"
  /\ printed = "An unexpected error occurred"

\* C6: a write of a file is directly followed by the git add of that file,
\* or by the failure of that git add, which ends the run; when the loop
\* goes on to the next file the files before it are staged as written;
\* update-index and lint run at most once, after every selected file has
\* been read and staged, and then every selected file is staged as written.
C6_Pipeline ==
  /\ \A k \in 1..Len(trace) :
       trace[k].op = "write" =>
         IF k < Len(trace) THEN trace[k + 1] = Event("add", trace[k].path)
         ELSE \/ pc \in {"add_id", "add_draft", "add_rt"}
              \/ raisedAt \in {"add_id", "add_draft", "add_rt"}
  /\ pc = "parse" => \A k \in 1..(i - 1) : Restaged(files[k])
  /\ OpCount("update_index") <= 1
  /\ OpCount("lint") <= 1
  /\ \A k \in 1..Len(trace) :
       trace[k].op \in {"update_index", "lint"} =>
         /\ \A f \in 1..Len(files) :
              /\ \E a \in 1..(k - 1) : trace[a] = Event("read", files[f])
              /\ \E a \in 1..(k - 1) : trace[a] = Event("add", files[f])
         /\ \A a \in (k + 1)..Len(trace) : trace[a].op \notin FileOps
         /\ trace[k].op = "lint" =>
              \E a \in 1..(k - 1) : trace[a].op = "update_index"
  /\ (pc = "lint" \/ OpCount("lint") = 1) =>
       \A f \in 1..Len(files) : Restaged(files[f])

C6_Witness ==
  /\ OpCount("lint") = 1
  /\ Len(files) = 2
  /\ \A f \in 1..Len(files) :
       /\ fs[files[f]] # start[files[f]]
       /\ \E a \in 1..Len(trace) : trace[a] = Event("write", files[f])

\* C7: relative to the start of a run, the hook changes a draft value only
\* from first to false; a document whose draft value is neither first nor
\* false keeps its draft and modDatetime fields; a document at false that
\* the loop has completed is still at false and has the time of the run in
\* its modDatetime field.
C7_DraftLifecycle ==
  \A p \in DOMAIN fs :
    LET d0 == Field(start[p], K_draft)
        d  == Field(fs[p], K_draft)
    IN  /\ d # d0 => (d0 = <<V_first>> /\ d = <<V_false>>)
        /\ d0 \notin {<<V_first>>, <<V_false>>} =>
             Field(fs[p], K_modDatetime) = Field(start[p], K_modDatetime)
        /\ (RunEnded /\ p \in Completed /\ d0 = <<V_false>>
              /\ Field(start[p], K_modDatetime) # << >>) =>
             Field(fs[p], K_modDatetime) = <<Timestamp(clock)>>

\* C8: the files a run reads, writes or stages are staged entries of status
\* M whose path ends in .mdx, and a run that raised nothing has gone
\* through every one of them.
C8_ExactlySelected ==
  /\ Touched \subseteq SelectedPaths
  /\ (RunEnded /\ exc = "none") => Touched = SelectedPaths

\* C9: relative to the start of a run, every file has the same set of
\* frontmatter keys, the same value for every key other than id, draft,
\* modDatetime and readingTime, and the same body.
C9_OnlyKeyValueChanges ==
  \A p \in DOMAIN fs :
    /\ DOMAIN Frontmatter(fs[p]) = DOMAIN Frontmatter(start[p])
    /\ \A k \in DOMAIN Frontmatter(start[p]) \ HookKeys :
         Field(fs[p], k) = Field(start[p], k)
    /\ BodyOf(fs[p]) = BodyOf(start[p])

\* C10: once an exception was raised while the loop was at its k-th file,
\* the run only handles it and ends: no file other than the first k has been
\* or will be touched, update-index and lint do not run, and the working
\* tree and the index stay as the failure found them.
C10_StopsAtFailure ==
  /\ [](exc # "none" /\ raisedAt \in LoopPositions =>
          /\ pc \in {"except", "done"}
          /\ Touched \subseteq {files[k] : k \in 1..i}
          /\ OpCount("update_index") = 0
          /\ OpCount("lint") = 0)
  /\ [][exc # "none" => fs' = fs /\ index' = index]_vars

C10_Witness ==
  /\ RunEnded
  /\ exc = "CalledProcessError"
  /\ raisedAt = "add_draft"
  /\ i = 1
  /\ Len(files) = 2
  /\ \A k \in 1..2 : files[k] \in DOMAIN fs
  /\ fs[files[1]] # start[files[1]]
  /\ fs[files[2]] = start[files[2]]
  /\ ~Restaged(files[1])

====
